---- MODULE Spec2Model ----
(***************************************************************************)
(* pyvisauto: one Region instance, its template searches (find, find_all,  *)
(* exists), its polling loops (wait, wait_vanish), shift_region and the    *)
(* Region / Match constructors of src/pyvisauto/__init__.py.               *)
(*                                                                         *)
(* Time is counted in ticks of one SCAN_RATE (0.05 s).  The pixels of a    *)
(* screenshot are represented by what the correlation engine answers for   *)
(* them: the score of the template at every placement inside the image.    *)
(***************************************************************************)
EXTENDS Integers, Sequences, FiniteSets, TLC

VARIABLES
    pc,         \* "new" (no instance yet), "idle", "wait", "wait_vanish",
                \* "returned" (a call has just returned or raised)
    x, y, w, h, \* the instance's rectangle (self.x, self.y, self.w, self.h)
    captured,   \* self._captured: None or the grayscale capture
    stale,      \* history: the rectangle has moved since captured was taken
    wait,       \* the running wait / wait_vanish call's timeout argument
    similarity, \* the running wait / wait_vanish call's threshold
    start, now, \* the running call's two clock samples
    searched,   \* history: the running call has run a search
    slept,      \* history: the running call has slept
    absent0,    \* environment: the target is absent from the screen when the
                \* call is made (exists would return False)
    call,       \* history: the last operation and its arguments
    ret         \* what the last operation returned or raised

vars == <<pc, x, y, w, h, captured, stale, wait, similarity, start, now,
          searched, slept, absent0, call, ret>>

\* Python's None, and a value v that is not None
None == <<>>
Some(v) == <<v>>

\* self._captured = None
NoCapture == [kind |-> "None"]

\* ---- bounds of the model ------------------------------------------------
MaxPos == 1     \* coordinates are 0..MaxPos
MaxW == 3       \* widths are 0..MaxW; the screen is MaxW wide
MaxH == 2       \* heights are 0..MaxH; the screen is MaxH high
MaxScore == 1   \* correlation scores are 0..MaxScore, and the scores of one
                \* image's placements add up to no more than MaxScore
MaxWait == 1    \* timeouts are -1..MaxWait ticks
MaxAdv == 1     \* one failed poll takes SCAN_RATE..MaxAdv ticks
TemplateW == 2  \* the asset is TemplateW pixels wide
TemplateH == 1  \* the asset is TemplateH pixels high

\* ImageMatch.SCAN_RATE, in ticks
SCAN_RATE == 1

\* the asset file: its name, and the shape cv2.imread gives its template
Target == "target.png"
Template == [w |-> TemplateW, h |-> TemplateH]

Coords == 0..MaxPos
Widths == 0..MaxW
Heights == 0..MaxH
Scores == 0..MaxScore
Similarities == 0..(MaxScore + 1)
Timeouts == (-1)..MaxWait
Optional(S) == {None} \cup {Some(v) : v \in S}

\* ---- the correlation engine (cv2.matchTemplate, cv2.minMaxLoc) -----------
Cv2Error == [kind |-> "cv2.error"]
CaptureError == [kind |-> "CaptureError"]

\* The shape of cv2.matchTemplate's result for an iw x ih image and a tw x th
\* template: image and template are swapped when the image is the smaller in
\* a dimension, which is an error unless it is no larger in both.
ResultShape(iw, ih, tw, th) ==
    IF iw >= tw /\ ih >= th
    THEN [rows |-> ih - th + 1, cols |-> iw - tw + 1]
    ELSE IF iw <= tw /\ ih <= th
    THEN [rows |-> th - ih + 1, cols |-> tw - iw + 1]
    ELSE [rows |-> 0, cols |-> 0]

Cells(shape) == (0..(shape.rows - 1)) \X (0..(shape.cols - 1))

RECURSIVE Total(_, _)
\* the sum of the scores p gives the cells of S
Total(p, S) ==
    IF S = {}
    THEN 0
    ELSE LET c == CHOOSE c \in S : TRUE
         IN p[c] + Total(p, S \ {c})

\* The pixel contents an iw x ih screenshot can have: the scores of the
\* template's placements, adding up to no more than MaxScore.
PixelsOf(iw, ih) ==
    LET cells == Cells(ResultShape(iw, ih, Template.w, Template.h))
    IN {p \in [cells -> Scores] : Total(p, cells) <= MaxScore}

\* cv2.matchTemplate(image, template, TM_CCOEFF_NORMED)
matchTemplate(image, template) ==
    LET shape == ResultShape(image.w, image.h, template.w, template.h)
    IN IF shape.rows = 0
       THEN Cv2Error
       ELSE [kind |-> "scores", rows |-> shape.rows, cols |-> shape.cols,
             at |-> [c \in Cells(shape) |-> image.px[c]]]

\* row-major position of a cell
Index(m, c) == c[1] * m.cols + c[2]

\* cv2.minMaxLoc: the maximum and the (col, row) of its first occurrence
minMaxLoc(m) ==
    LET cells == Cells(m)
        best == CHOOSE c \in cells :
                    \A d \in cells :
                        \/ m.at[d] < m.at[c]
                        \/ m.at[d] = m.at[c] /\ Index(m, c) <= Index(m, d)
    IN [max_val |-> m.at[best], max_loc |-> <<best[2], best[1]>>]

\* ---- Match.__init__ -----------------------------------------------------
Match(name, mx, my, mw, mh, sim) ==
    [kind |-> "Match", name |-> name, x |-> mx, y |-> my, w |-> mw, h |-> mh,
     similarity |-> sim]

\* ---- ImageMatch._capture and ImageMatch._match_template ---------------------
\* every grayscale image of a non-empty rectangle
Images ==
    UNION {{[kind |-> "image", w |-> d[1], h |-> d[2], px |-> p] :
               p \in PixelsOf(d[1], d[2])} : d \in (1..MaxW) \X (1..MaxH)}

\* pyautogui.screenshot(region=(x, y, w, h)) turned to grayscale: the images
\* the screen can show there; none for an empty rectangle, where the
\* conversion raises.
Screenshots(rx, ry, rw, rh) == {img \in Images : img.w = rw /\ img.h = rh}

\* as TakesCapture, with the cached flag not looked at
TakesCaptureUnlessCached(cached, cap) == cap.kind = "None"

\* "if not cached or self._captured is None"
TakesCapture(cached, cap) == ~cached \/ cap.kind = "None"

\* The values self._captured can have when _match_template reaches
\* cv2.matchTemplate; CaptureError when the capture raised.
Captures(cached) ==
    IF TakesCapture(cached, captured)
    THEN IF Screenshots(x, y, w, h) = {}
         THEN {CaptureError}
         ELSE Screenshots(x, y, w, h)
    ELSE {captured}

\* ---- the searches, on the capture _match_template settled on --------------
\* as FindOn, with max_loc's two coordinates taken the other way round
FindOnTransposed(cap, sim) ==
    LET match == matchTemplate(cap, Template)
    IN IF match.kind = "cv2.error"
       THEN Cv2Error
       ELSE LET mm == minMaxLoc(match)
            IN IF mm.max_val < sim
               THEN [kind |-> "FindFailed"]
               ELSE Match(Target, x + mm.max_loc[2], y + mm.max_loc[1],
                          Template.w, Template.h, mm.max_val)

FindOn(cap, sim) ==
    LET match == matchTemplate(cap, Template)
    IN IF match.kind = "cv2.error"
       THEN Cv2Error
       ELSE LET mm == minMaxLoc(match)
            IN IF mm.max_val < sim
               THEN [kind |-> "FindFailed"]
               ELSE Match(Target, x + mm.max_loc[1], y + mm.max_loc[2],
                          Template.w, Template.h, mm.max_val)

\* as ExistsOn, with "max_val <= similarity"
ExistsOnStrict(cap, sim) ==
    LET match == matchTemplate(cap, Template)
    IN IF match.kind = "cv2.error"
       THEN Cv2Error
       ELSE LET mm == minMaxLoc(match)
            IN IF mm.max_val <= sim
               THEN [kind |-> "False"]
               ELSE [kind |-> "True"]

ExistsOn(cap, sim) ==
    LET match == matchTemplate(cap, Template)
    IN IF match.kind = "cv2.error"
       THEN Cv2Error
       ELSE LET mm == minMaxLoc(match)
            IN IF mm.max_val < sim
               THEN [kind |-> "False"]
               ELSE [kind |-> "True"]

RECURSIVE Collect(_, _, _)
\* the cells np.where(matches >= similarity) lists from row-major position k on,
\* each made a Match
Collect(m, sim, k) ==
    IF k >= m.rows * m.cols
    THEN <<>>
    ELSE LET row == k \div m.cols
             col == k % m.cols
         IN (IF m.at[<<row, col>>] >= sim
             THEN <<Match(Target, x + col, y + row, Template.w, Template.h,
                          m.at[<<row, col>>])>>
             ELSE <<>>) \o Collect(m, sim, k + 1)

\* as FindAllOn, with "matches > similarity"
FindAllOnStrict(cap, sim) ==
    LET matches == matchTemplate(cap, Template)
    IN IF matches.kind = "cv2.error"
       THEN Cv2Error
       ELSE [kind |-> "list", list |-> Collect(matches, sim + 1, 0)]

FindAllOn(cap, sim) ==
    LET matches == matchTemplate(cap, Template)
    IN IF matches.kind = "cv2.error"
       THEN Cv2Error
       ELSE [kind |-> "list", list |-> Collect(matches, sim, 0)]

\* ---- state ----------------------------------------------------------------
NoCall == [op |-> "none"]
NoRet == [kind |-> "none"]

Init ==
    /\ pc = "new"
    /\ x = 0 /\ y = 0 /\ w = 0 /\ h = 0
    /\ captured = NoCapture
    /\ stale = FALSE
    /\ wait = 0 /\ similarity = 0 /\ start = 0 /\ now = 0
    /\ searched = FALSE /\ slept = FALSE
    /\ absent0 = FALSE
    /\ call = NoCall
    /\ ret = NoRet

Locals == <<wait, similarity, start, now, searched, slept, absent0>>
Rect == <<x, y, w, h>>

\* ---- Region.__init__ ------------------------------------------------------
RegionInit(ax, ay, aw, ah) ==
    /\ pc = "new"
    /\ call' = [op |-> "Region", x |-> ax, y |-> ay, w |-> aw, h |-> ah]
    /\ IF ax = None /\ ay = None /\ aw = None /\ ah = None
       THEN /\ x' = 0 /\ y' = 0 /\ w' = MaxW /\ h' = MaxH
            /\ ret' = [kind |-> "Region"]
       ELSE IF ax = None \/ ay = None \/ aw = None \/ ah = None
       THEN /\ UNCHANGED <<x, y, w, h>>
            /\ ret' = [kind |-> "ValueError"]
       ELSE /\ x' = ax[1] /\ y' = ay[1] /\ w' = aw[1] /\ h' = ah[1]
            /\ ret' = [kind |-> "Region"]
    /\ pc' = "returned"
    /\ UNCHANGED <<captured, stale, Locals>>

Construct ==
    \E ax \in Optional(Coords), ay \in Optional(Coords),
       aw \in Optional(Widths), ah \in Optional(Heights) :
        RegionInit(ax, ay, aw, ah)

\* ---- ImageMatch.shift_region ----------------------------------------------
\* as shift_region, with the cached capture dropped
shift_region_invalidating(new_x, new_y) ==
    /\ pc = "idle"
    /\ x' = new_x
    /\ y' = new_y
    /\ captured' = NoCapture
    /\ stale' = FALSE
    /\ call' = [op |-> "shift_region", x |-> new_x, y |-> new_y]
    /\ ret' = NoRet
    /\ pc' = "returned"
    /\ UNCHANGED <<w, h, Locals>>

shift_region(new_x, new_y) ==
    /\ pc = "idle"
    /\ x' = new_x
    /\ y' = new_y
    /\ call' = [op |-> "shift_region", x |-> new_x, y |-> new_y]
    /\ ret' = NoRet
    /\ stale' = (captured.kind # "None" /\ (stale \/ new_x # x \/ new_y # y))
    /\ pc' = "returned"
    /\ UNCHANGED <<w, h, captured, Locals>>

Shift == \E new_x \in Coords, new_y \in Coords : shift_region(new_x, new_y)

\* ---- ImageMatch.find, find_all, exists ------------------------------------
SearchCall(op, sim, cached) ==
    [op |-> op, similarity |-> sim, cached |-> cached,
     capture |-> TakesCapture(cached, captured)]

find(sim, cached) ==
    /\ pc = "idle"
    /\ call' = SearchCall("find", sim, cached)
    /\ \E cap \in Captures(cached) :
          IF cap.kind = "CaptureError"
          THEN captured' = captured /\ ret' = CaptureError
          ELSE captured' = cap /\ ret' = FindOn(cap, sim)
    /\ stale' = (stale /\ ~call'.capture)
    /\ pc' = "returned"
    /\ UNCHANGED <<Rect, Locals>>

find_all(sim, cached) ==
    /\ pc = "idle"
    /\ call' = SearchCall("find_all", sim, cached)
    /\ \E cap \in Captures(cached) :
          IF cap.kind = "CaptureError"
          THEN captured' = captured /\ ret' = CaptureError
          ELSE captured' = cap /\ ret' = FindAllOn(cap, sim)
    /\ stale' = (stale /\ ~call'.capture)
    /\ pc' = "returned"
    /\ UNCHANGED <<Rect, Locals>>

exists(sim, cached) ==
    /\ pc = "idle"
    /\ call' = SearchCall("exists", sim, cached)
    /\ \E cap \in Captures(cached) :
          IF cap.kind = "CaptureError"
          THEN captured' = captured /\ ret' = CaptureError
          ELSE captured' = cap /\ ret' = ExistsOn(cap, sim)
    /\ stale' = (stale /\ ~call'.capture)
    /\ pc' = "returned"
    /\ UNCHANGED <<Rect, Locals>>

Find == \E sim \in Similarities, cached \in BOOLEAN : find(sim, cached)
FindAll == \E sim \in Similarities, cached \in BOOLEAN : find_all(sim, cached)
Exists == \E sim \in Similarities, cached \in BOOLEAN : exists(sim, cached)

\* ---- the environment of a polling loop --------------------------------------
\* the target shows in an image at threshold sim
Visible(img, sim) == \E c \in DOMAIN img.px : img.px[c] >= sim

\* exists can answer for the instance's rectangle: it can be captured and the
\* engine accepts the template on it
Searchable ==
    /\ Screenshots(x, y, w, h) # {}
    /\ ResultShape(w, h, Template.w, Template.h).rows > 0

\* whether the target can be absent when a call with threshold sim is made
Absences(sim) ==
    IF Searchable
    THEN {~Visible(img, sim) : img \in Screenshots(x, y, w, h)}
    ELSE {FALSE}

\* What a poll's _match_template can capture: before the first sleep the
\* screen is as it was when the call was made, later it is any screen.
PollCaptures ==
    IF slept \/ ~Searchable
    THEN Captures(FALSE)
    ELSE {cap \in Captures(FALSE) : Visible(cap, similarity) = ~absent0}

LoopCall(op, step, done, hasSearched, hasSlept) ==
    [op |-> op, step |-> step, done |-> done, wait |-> wait,
     similarity |-> similarity, cached |-> FALSE,
     capture |-> (step = "poll" /\ TakesCapture(FALSE, captured)),
     searched |-> hasSearched, slept |-> hasSlept, absent0 |-> absent0,
     elapsed |-> now - start]

\* the call returns or raises r: its locals are gone
Return(r) ==
    /\ pc' = "returned"
    /\ ret' = r
    /\ wait' = 0 /\ similarity' = 0 /\ start' = 0 /\ now' = 0
    /\ searched' = FALSE /\ slept' = FALSE
    /\ absent0' = FALSE

\* as Sleep, with "now" not sampled again
SleepStaleClock(d) ==
    /\ now' = now
    /\ slept' = TRUE
    /\ searched' = TRUE
    /\ UNCHANGED <<pc, wait, similarity, start, absent0>>

\* sleep(self.SCAN_RATE); now = datetime.now(): the poll took d ticks
Sleep(d) ==
    /\ now' = now + d
    /\ slept' = TRUE
    /\ searched' = TRUE
    /\ UNCHANGED <<pc, wait, similarity, start, absent0>>

PollTimes == SCAN_RATE..MaxAdv

\* ---- ImageMatch.wait --------------------------------------------------------
\* start = datetime.now(); now = datetime.now()
WaitEnter(op, t, sim) ==
    /\ pc = "idle"
    /\ pc' = op
    /\ wait' = t /\ similarity' = sim
    /\ start' = 0 /\ now' = 0
    /\ searched' = FALSE /\ slept' = FALSE
    /\ absent0' \in Absences(sim)
    /\ call' = [op |-> op, step |-> "call", done |-> FALSE, wait |-> t,
                similarity |-> sim, cached |-> FALSE, capture |-> FALSE,
                searched |-> FALSE, slept |-> FALSE, absent0 |-> absent0',
                elapsed |-> 0]
    /\ ret' = NoRet
    /\ UNCHANGED <<Rect, captured, stale>>

\* "while (now - start).total_seconds() < wait"
InTime == now - start < wait

WaitCall == \E t \in Timeouts, sim \in Similarities : WaitEnter("wait", t, sim)

\* one pass of the loop body: try find, return its Match or sleep on FindFailed
WaitPoll ==
    /\ pc = "wait"
    /\ InTime
    /\ stale' = FALSE
    /\ UNCHANGED Rect
    /\ \E cap \in PollCaptures :
          IF cap.kind = "CaptureError"
          THEN /\ captured' = captured
               /\ call' = LoopCall("wait", "poll", TRUE, TRUE, slept)
               /\ Return(CaptureError)
          ELSE /\ captured' = cap
               /\ LET r == FindOn(cap, similarity)
                  IN IF r.kind = "FindFailed"
                     THEN /\ \E d \in PollTimes : Sleep(d)
                          /\ call' = LoopCall("wait", "poll", FALSE, TRUE, TRUE)
                          /\ ret' = NoRet
                     ELSE /\ call' = LoopCall("wait", "poll", TRUE, TRUE, slept)
                          /\ Return(r)

\* the loop condition fails: raise FindFailed(... after waiting ...)
WaitTimeout ==
    /\ pc = "wait"
    /\ ~InTime
    /\ call' = LoopCall("wait", "timeout", TRUE, searched, slept)
    /\ Return([kind |-> "FindFailed"])
    /\ UNCHANGED <<Rect, captured, stale>>

\* ---- ImageMatch.wait_vanish -------------------------------------------------
VanishCall ==
    \E t \in Timeouts, sim \in Similarities : WaitEnter("wait_vanish", t, sim)

\* one pass of the loop body: return True when exists says False, else sleep
VanishPoll ==
    /\ pc = "wait_vanish"
    /\ InTime
    /\ stale' = FALSE
    /\ UNCHANGED Rect
    /\ \E cap \in PollCaptures :
          IF cap.kind = "CaptureError"
          THEN /\ captured' = captured
               /\ call' = LoopCall("wait_vanish", "poll", TRUE, TRUE, slept)
               /\ Return(CaptureError)
          ELSE /\ captured' = cap
               /\ LET r == ExistsOn(cap, similarity)
                  IN IF r.kind = "True"
                     THEN /\ \E d \in PollTimes : Sleep(d)
                          /\ call' = LoopCall("wait_vanish", "poll", FALSE,
                                              TRUE, TRUE)
                          /\ ret' = NoRet
                     ELSE /\ call' = LoopCall("wait_vanish", "poll", TRUE,
                                              TRUE, slept)
                          /\ Return(IF r.kind = "False"
                                    THEN [kind |-> "True"] ELSE r)

\* the loop condition fails: raise VanishFailed
VanishTimeout ==
    /\ pc = "wait_vanish"
    /\ ~InTime
    /\ call' = LoopCall("wait_vanish", "timeout", TRUE, searched, slept)
    /\ Return([kind |-> "VanishFailed"])
    /\ UNCHANGED <<Rect, captured, stale>>

\* ---- the caller ------------------------------------------------------------
\* The caller has the call's result and goes on: to its next call on the
\* instance, or, after the constructor raised, to constructing again.
Resume ==
    /\ pc = "returned"
    /\ pc' = IF ret.kind = "ValueError" THEN "new" ELSE "idle"
    /\ call' = NoCall
    /\ ret' = NoRet
    /\ UNCHANGED <<Rect, captured, stale, Locals>>

Next ==
    \/ Resume
    \/ Construct
    \/ Shift
    \/ Find
    \/ FindAll
    \/ Exists
    \/ WaitCall
    \/ WaitPoll
    \/ WaitTimeout
    \/ VanishCall
    \/ VanishPoll
    \/ VanishTimeout

Spec == Init /\ [][Next]_vars

\* The interpreter runs a started loop on: a pass of the loop body or the
\* final raise is taken whenever the call is inside wait or wait_vanish.
FairSpec ==
    /\ Spec
    /\ WF_vars(WaitPoll \/ WaitTimeout)
    /\ WF_vars(VanishPoll \/ VanishTimeout)

\* ---- properties ------------------------------------------------------------
SearchOps == {"find", "find_all", "exists"}
LoopOps == {"wait", "wait_vanish"}
Errors == {"CaptureError", "cv2.error"}

\* the last step ended a wait / wait_vanish call
Ended(op) == call.op = op /\ call.done

\* the placement a Match names, as (row, col) from the instance's origin
CellOf(m) == <<m.y - y, m.x - x>>

\* C1: no execution of wait, whatever its timeout (0 and negative included),
\* raises FindFailed without having run a search first.
C1_SearchBeforeTimeout ==
    (Ended("wait") /\ ret.kind = "FindFailed") => call.searched

\* C2: whatever the timeout (0 included), a wait_vanish called while the
\* target is absent (exists would return False) returns True without a sleep
\* and does not raise VanishFailed.
C2_AbsentVanishesAtOnce ==
    (Ended("wait_vanish") /\ call.absent0) =>
        (ret.kind = "True" /\ ~call.slept)

\* C3: on the same instance state, capture, target and similarity, exists
\* never raises FindFailed, returns False exactly when find raises FindFailed
\* and True exactly when find returns a Match.
C3_ExistsAgreesWithFind ==
    /\ (call.op = "exists" /\ ret.kind # "CaptureError") =>
          /\ ret.kind # "FindFailed"
          /\ (ret.kind = "False") =
                (FindOn(captured, call.similarity).kind = "FindFailed")
          /\ (ret.kind = "True") =
                (FindOn(captured, call.similarity).kind = "Match")
    /\ (call.op = "find" /\ ret.kind # "CaptureError") =>
          /\ (ret.kind = "FindFailed") =
                (ExistsOn(captured, call.similarity).kind = "False")
          /\ (ret.kind = "Match") =
                (ExistsOn(captured, call.similarity).kind = "True")

C3_Witness ==
    /\ call.op = "exists" /\ ret.kind = "True"
    /\ \E c \in DOMAIN captured.px : captured.px[c] = call.similarity
    /\ \A c \in DOMAIN captured.px : captured.px[c] <= call.similarity

\* C4: for every score matrix and threshold, find raises FindFailed when the
\* matrix's maximum is below similarity, and otherwise returns a Match at
\* (x + maxCol, y + maxRow) of the template's size whose similarity is that
\* maximum, hence at least the threshold.
C4_FindMaximum ==
    (call.op = "find" /\ ret.kind # "CaptureError"
        /\ DOMAIN captured.px # {}) =>
        LET px == captured.px
        IN IF \A c \in DOMAIN px : px[c] < call.similarity
           THEN ret.kind = "FindFailed"
           ELSE /\ ret.kind = "Match"
                /\ ret.name = Target
                /\ ret.w = Template.w /\ ret.h = Template.h
                /\ CellOf(ret) \in DOMAIN px
                /\ ret.similarity = px[CellOf(ret)]
                /\ \A c \in DOMAIN px : px[c] <= ret.similarity
                /\ ret.similarity >= call.similarity

C4_Witness ==
    /\ call.op = "find" /\ ret.kind = "Match"
    /\ ret.x = x + 1 /\ ret.y = y
    /\ ret.similarity > 0
    /\ Cardinality(DOMAIN captured.px) = 4

\* C5: find_all returns one Match for every cell whose score is at least
\* similarity and none for another cell, each at (x + col, y + row) with the
\* template's size and the cell's score, in row-major order; an empty list,
\* and no error, when no cell reaches the threshold.
C5_FindAllExact ==
    (call.op = "find_all" /\ ret.kind # "CaptureError"
        /\ DOMAIN captured.px # {}) =>
        LET px == captured.px
            cols == Cardinality({c[2] : c \in DOMAIN px})
            hits == {c \in DOMAIN px : px[c] >= call.similarity}
            pos(m) == CellOf(m)[1] * cols + CellOf(m)[2]
        IN /\ ret.kind = "list"
           /\ Len(ret.list) = Cardinality(hits)
           /\ \A i \in 1..Len(ret.list) :
                 /\ ret.list[i].kind = "Match"
                 /\ ret.list[i].name = Target
                 /\ ret.list[i].w = Template.w /\ ret.list[i].h = Template.h
                 /\ CellOf(ret.list[i]) \in hits
                 /\ ret.list[i].similarity = px[CellOf(ret.list[i])]
           /\ \A i \in 1..Len(ret.list), j \in 1..Len(ret.list) :
                 i < j => pos(ret.list[i]) < pos(ret.list[j])

C5_Witness ==
    /\ call.op = "find_all" /\ ret.kind = "list"
    /\ Len(ret.list) = 4
    /\ ret.list[2].x > ret.list[3].x /\ ret.list[2].y < ret.list[3].y
    /\ \E i \in 1..4 : ret.list[i].similarity > 0

\* C6: when the template is larger than the region's capture in width or in
\* height, find fails with FindFailed and with no other outcome.
C6_OversizeTemplateNotFound ==
    (call.op = "find" /\ ret.kind # "CaptureError"
        /\ (Template.w > captured.w \/ Template.h > captured.h)) =>
        ret.kind = "FindFailed"

\* C7: with every search and sleep completing and every failed poll taking
\* at least the scan interval, each wait and wait_vanish call ends; wait ends
\* with a Match or FindFailed, wait_vanish with True or VanishFailed, and the
\* timeout error comes only when the elapsed time is no longer below the
\* timeout.
C7_LoopsTerminate ==
    /\ (pc \in LoopOps) ~> (pc = "returned")
    /\ []((Ended("wait") /\ ret.kind \notin Errors) =>
            ret.kind \in {"Match", "FindFailed"})
    /\ []((Ended("wait_vanish") /\ ret.kind \notin Errors) =>
            ret.kind \in {"True", "VanishFailed"})
    /\ []((call.op \in LoopOps /\ call.done
              /\ ret.kind \in {"FindFailed", "VanishFailed"}) =>
            call.elapsed >= call.wait)

C7_Witness ==
    /\ Ended("wait") /\ ret.kind = "FindFailed"
    /\ call.slept /\ call.wait = MaxWait

\* C8: shift_region sets x and y and leaves w, h and the cached capture as
\* they are, so a find with cached=True after it searches the capture taken
\* before the shift and reports the new origin plus the offset found there.
C8_ShiftKeepsCache ==
    [][/\ call'.op = "shift_region" =>
              /\ x' = call'.x /\ y' = call'.y
              /\ w' = w /\ h' = h
              /\ captured' = captured
       /\ (call'.op = "find" /\ call'.cached /\ captured.kind = "image") =>
              /\ captured' = captured
              /\ ret'.kind = "Match" =>
                    /\ <<ret'.y - y, ret'.x - x>> \in DOMAIN captured.px
                    /\ ret'.similarity =
                          captured.px[<<ret'.y - y, ret'.x - x>>]
                    /\ \A c \in DOMAIN captured.px :
                          captured.px[c] <= ret'.similarity
              /\ ret'.kind = "FindFailed" =>
                    \A c \in DOMAIN captured.px :
                        captured.px[c] < call'.similarity
      ]_vars

C8_Witness ==
    /\ call.op = "find" /\ call.cached /\ ~call.capture
    /\ stale
    /\ ret.kind = "Match" /\ ret.x > x /\ x > 0

\* C9: a search captures the instance's current rectangle exactly when
\* cached is false or there is no cached capture, and otherwise reuses the
\* cached capture; every poll of wait and wait_vanish captures; after a
\* search the cache holds the capture the search used.
C9_CaptureDiscipline ==
    [][(call'.op \in SearchOps
          \/ (call'.op \in LoopOps /\ call'.step = "poll")) =>
          /\ call'.capture = (~call'.cached \/ captured.kind = "None")
          /\ call'.op \in LoopOps => call'.capture
          /\ IF call'.capture
             THEN \/ /\ ret'.kind = "CaptureError"
                     /\ captured' = captured
                     /\ (w <= 0 \/ h <= 0)
                  \/ /\ ret'.kind # "CaptureError"
                     /\ captured'.kind = "image"
                     /\ captured'.w = w /\ captured'.h = h
                     /\ ~stale'
             ELSE captured' = captured /\ stale' = stale
          /\ (call'.op = "find" /\ ret'.kind # "CaptureError") =>
                ret' = FindOn(captured', call'.similarity)
          /\ (call'.op = "find_all" /\ ret'.kind # "CaptureError") =>
                ret' = FindAllOn(captured', call'.similarity)
          /\ (call'.op = "exists" /\ ret'.kind # "CaptureError") =>
                ret' = ExistsOn(captured', call'.similarity)
          /\ (call'.op = "wait" /\ ret'.kind = "Match") =>
                ret' = FindOn(captured', call'.similarity)
      ]_vars

C9_Witness ==
    /\ call.op = "exists" /\ call.cached /\ call.capture
    /\ captured.kind = "image"

\* C10: every constructed Region or Match has w > 0 and h > 0.
C10_PositiveSize ==
    /\ (pc # "new" /\ ret.kind # "ValueError") => (w > 0 /\ h > 0)
    /\ ret.kind = "Match" => (ret.w > 0 /\ ret.h > 0)
====
